---- MODULE Spec2Model ----
(***************************************************************************)
(* Model of nephrology_agent/llama_service.py: the LlamaService singleton, *)
(* its response cache, its shared HTTP session, and the retry loop of      *)
(* generate_response_async.                                                *)
(***************************************************************************)
EXTENDS Integers, Sequences, FiniteSets, TLC

VARIABLES
    calls,          \* per logical call: the coroutine's locals and position
    cache,          \* self._cache: cache key -> response text
    has_cache,      \* hasattr(self, '_cache')
    session,        \* self._session: "none", "open" or "closed"
    returned_text,  \* history: key -> text last returned by a successful attempt
    service         \* the class and its instance: _instance, _initialized, config

vars == <<calls, cache, has_cache, session, returned_text, service>>

-----------------------------------------------------------------------------
(* Program constants                                                       *)

MAX_RETRIES == 3
RETRY_DELAY == 1
HTTP_OK == 200
HTTP_TOO_MANY_REQUESTS == 429
HTTP_504_GATEWAY_TIMEOUT == 504
HTTP_503_SERVICE_UNAVAILABLE == 503
HTTP_500_INTERNAL_SERVER_ERROR == 500

-----------------------------------------------------------------------------
(* Input and backend domains                                               *)

Calls == {1, 2}
SeqCalls == {1}

Whitespace == {" "}

Prompts == {<< >>, <<" ">>, <<" ", " ">>, <<"a">>}

UserMessage == [role |-> "user", content |-> "q"]

AssistantMessage == [role |-> "assistant", content |-> "r"]

\* the inputs of a call: prompt, conversation_history, **kwargs in call order
Request(prompt, hist, kwargs) ==
    [prompt |-> prompt, hist |-> hist, kwargs |-> kwargs]

Requests ==
    {Request(p, << >>, << >>) : p \in Prompts}
    \cup {Request(<<"a">>, <<UserMessage, AssistantMessage>>,
                    <<<<"temperature", 7>>>>)}

Texts == {"t1", "t2"}

\* largest Retry-After, in seconds, the modelled backend sends
MaxRetryAfter == 2

DigitChars == <<"0", "1", "2", "3", "4", "5", "6", "7", "8", "9">>

\* the decimal text of a delay, as a backend writes it into the header
RECURSIVE Decimal(_)
Decimal(n) ==
    IF n < 10 THEN <<DigitChars[n + 1]>>
    ELSE Append(Decimal(n \div 10), DigitChars[(n % 10) + 1])

\* Retry-After is either delay-seconds or an HTTP-date
RetryAfterHeaders ==
    {Decimal(n) : n \in 0..MaxRetryAfter} \cup {<<"W", "e", "d">>}

ErrorStatuses == {400, 503}

Outcome(kind, status, has_hdr, hdr, has_content, text) ==
    [kind |-> kind, status |-> status, has_hdr |-> has_hdr, hdr |-> hdr,
     has_content |-> has_content, text |-> text]

TimeoutOutcome == Outcome("timeout", 0, FALSE, << >>, FALSE, "")
ConnErrOutcome == Outcome("connerr", 0, FALSE, << >>, FALSE, "")
ExceptionOutcome == Outcome("exception", 0, FALSE, << >>, FALSE, "")
ClosedOutcome == Outcome("session_closed", 0, FALSE, << >>, FALSE, "")

Responses ==
    {TimeoutOutcome, ConnErrOutcome, ExceptionOutcome}
    \cup {Outcome("http", HTTP_OK, FALSE, << >>, TRUE, t) : t \in Texts}
    \cup {Outcome("http", HTTP_OK, FALSE, << >>, FALSE, "")}
    \cup {Outcome("http", HTTP_TOO_MANY_REQUESTS, FALSE, << >>, FALSE, "err")}
    \cup {Outcome("http", HTTP_TOO_MANY_REQUESTS, TRUE, h, FALSE, "err") :
            h \in RetryAfterHeaders}
    \cup {Outcome("http", s, FALSE, << >>, FALSE, "err") : s \in ErrorStatuses}

-----------------------------------------------------------------------------
(* Pure helpers                                                            *)

\* str.strip(): drop leading and trailing whitespace
RECURSIVE LStrip(_)
LStrip(s) ==
    IF Len(s) > 0 /\ s[1] \in Whitespace THEN LStrip(Tail(s)) ELSE s

RECURSIVE RStrip(_)
RStrip(s) ==
    IF Len(s) > 0 /\ s[Len(s)] \in Whitespace
    THEN RStrip(SubSeq(s, 1, Len(s) - 1)) ELSE s

Strip(s) == RStrip(LStrip(s))

\* faulty variant: the prompt is not stripped before the test
OnlyEmptyIsInvalid(prompt) == Len(prompt) = 0

\* `not prompt or not prompt.strip()`
InvalidPrompt(prompt) == Len(prompt) = 0 \/ Len(Strip(prompt)) = 0

\* m.get(field, '')
MsgGet(m, field) == IF field \in DOMAIN m THEN m[field] ELSE ""

\* tuple((m.get('role', ''), m.get('content', '')) for m in history)
ConversationTuple(hist) ==
    [i \in 1..Len(hist) |-> <<MsgGet(hist[i], "role"), MsgGet(hist[i], "content")>>]

\* faulty variant: the options enter the key in the order they were given
KwargsInOrder(kwargs) == kwargs

\* frozenset(kwargs.items())
KwargsItems(kwargs) == {kwargs[i] : i \in 1..Len(kwargs)}

\* _get_cache_key, with hash() taken as injective on these domains
CacheKey(prompt, hist, kwargs) ==
    <<"llama_resp", prompt, ConversationTuple(hist), KwargsItems(kwargs)>>

\* line 124: the fixed system message
SystemMessage ==
    [role |-> "system",
     content |-> "You are a helpful AI assistant specialized in nephrology and kidney health."]

\* line 126: the new user message
UserPrompt(prompt) == [role |-> "user", content |-> prompt]

\* faulty variant: the history is not copied into the messages
HistoryDropped(prompt, hist) == <<SystemMessage, UserPrompt(prompt)>>

\* lines 124-126: system message, then the history, then the prompt
BuildMessages(prompt, hist) ==
    <<SystemMessage>> \o hist \o <<UserPrompt(prompt)>>

\* kwargs.get(name, default)
OptionGet(kwargs, name, default) ==
    IF \E i \in 1..Len(kwargs) : kwargs[i][1] = name
    THEN kwargs[CHOOSE i \in 1..Len(kwargs) : kwargs[i][1] = name][2]
    ELSE default

\* option values are held in tenths (7 is 0.7); int() cuts a number of
\* tenths down to whole units, towards zero
IntTrunc(x) == IF x >= 0 THEN x \div 10 ELSE -((-x) \div 10)

Min(a, b) == IF a <= b THEN a ELSE b

\* lines 133-137: the "options" of the payload; temperature and top_p in
\* tenths, num_predict in units
PayloadOptions(kwargs) ==
    [temperature |-> Min(OptionGet(kwargs, "temperature", 7), 10),
     num_predict |-> Min(IntTrunc(OptionGet(kwargs, "max_tokens", 10000)), 4000),
     top_p |-> OptionGet(kwargs, "top_p", 9)]

\* faulty variant: the cache is never consulted
NeverHit(has, c, key) == FALSE

\* hasattr(self, '_cache') and cache_key in self._cache
CacheHit(has, c, key) == has /\ key \in DOMAIN c

\* faulty variant: an entry already in the cache is kept
KeepFirstEntry(c, key, text) ==
    IF key \in DOMAIN c THEN c
    ELSE [k \in DOMAIN c \cup {key} |-> IF k = key THEN text ELSE c[k]]

\* faulty variant: the response is not stored
StoreNothing(c, key, text) == c

\* self._cache[cache_key] = response_text
CacheStore(c, key, text) ==
    [k \in DOMAIN c \cup {key} |-> IF k = key THEN text ELSE c[k]]

\* faulty variant: any HTTP answer is read as a success
AnyHttpIsSuccess(out) == out.kind = "http"

\* the negation of `response.status != 200`
IsSuccess(out) == out.kind = "http" /\ out.status = HTTP_OK

\* faulty variant: the content field is not read
ExtractNothing(out) == ""

\* result.get('message', {}).get('content', '')
ExtractText(out) == IF out.has_content THEN out.text ELSE ""

Digits == {"0", "1", "2", "3", "4", "5", "6", "7", "8", "9"}

DigitValue(ch) ==
    CASE ch = "0" -> 0 [] ch = "1" -> 1 [] ch = "2" -> 2 [] ch = "3" -> 3
      [] ch = "4" -> 4 [] ch = "5" -> 5 [] ch = "6" -> 6 [] ch = "7" -> 7
      [] ch = "8" -> 8 [] ch = "9" -> 9

\* int(s) succeeds (decimal digits only in this model)
IntParses(s) == Len(s) > 0 /\ \A i \in 1..Len(s) : s[i] \in Digits

RECURSIVE IntValue(_)
IntValue(s) ==
    IF Len(s) = 0 THEN 0
    ELSE 10 * IntValue(SubSeq(s, 1, Len(s) - 1)) + DigitValue(s[Len(s)])

\* faulty variant: the Retry-After header is not read
HeaderIgnored(out) == <<"1">>

\* response.headers.get('Retry-After', '1')
RetryAfterHeader(out) == IF out.has_hdr THEN out.hdr ELSE <<"1">>

\* faulty variant: the delay does not grow
ConstantBackoff(attempt) == RETRY_DELAY

\* wait_time = RETRY_DELAY * (2 ** attempt)
BackoffWait(attempt) == RETRY_DELAY * (2 ^ attempt)

\* `if attempt < MAX_RETRIES - 1`
ShouldBackoff(attempt) == attempt < MAX_RETRIES - 1

\* faulty variant: range(MAX_RETRIES + 2)
TwoMoreIterations(attempt) == attempt + 1 < MAX_RETRIES + 2

\* faulty variant: range(MAX_RETRIES + 1)
OneMoreIteration(attempt) == attempt + 1 < MAX_RETRIES + 1

\* `for attempt in range(MAX_RETRIES)`: another iteration follows `attempt`
RangeHasNext(attempt) == attempt + 1 < MAX_RETRIES

-----------------------------------------------------------------------------
(* Exceptions                                                              *)

Err(type, status, detail, cause_status, cause_text) ==
    [type |-> type, status |-> status, detail |-> detail,
     cause_status |-> cause_status, cause_text |-> cause_text]

NoError == Err("None", 0, "", 0, "")

ValueErrorEmptyPrompt == Err("ValueError", 0, "Prompt cannot be empty", 0, "")

TimeoutError504 ==
    Err("HTTPException", HTTP_504_GATEWAY_TIMEOUT,
        "Request to Llama API timed out", 0, "")

ConnectionError503 ==
    Err("HTTPException", HTTP_503_SERVICE_UNAVAILABLE,
        "Error connecting to Llama API", 0, "")

\* the generic handler wraps str(e) of whatever was raised inside the try
UnexpectedError500(cause_status, cause_text) ==
    Err("HTTPException", HTTP_500_INTERNAL_SERVER_ERROR,
        "Unexpected error", cause_status, cause_text)

GenericFailure500 ==
    Err("HTTPException", HTTP_500_INTERNAL_SERVER_ERROR,
        "Failed to generate response after multiple attempts", 0, "")

\* asyncio.CancelledError, a BaseException
CancelledError == Err("CancelledError", 0, "", 0, "")

\* which except clause catches the failure of an attempt
ExceptionFor(out) ==
    CASE out.kind = "timeout" -> TimeoutError504
      [] out.kind = "connerr" -> ConnectionError503
      [] out.kind = "exception" -> UnexpectedError500(0, "exception")
      [] out.kind = "session_closed" -> UnexpectedError500(0, "Session is closed")
      [] out.kind = "http" /\ out.status = HTTP_TOO_MANY_REQUESTS ->
            UnexpectedError500(0, "invalid literal for int()")
      [] OTHER -> UnexpectedError500(out.status, out.text)

-----------------------------------------------------------------------------
(* The class: singleton construction, configuration, close                 *)

\* most LlamaService(...) calls the modelled process makes
MaxConstructions == 3

\* most close() calls the modelled process makes
MaxCloses == 2

\* constructor arguments; "" stands for None
BaseUrls == {"", "u1", "u2"}
ApiKeys == {"", "k1"}

\* os.getenv("LLAMA_API_URL", "http://localhost:8000"), variable unset
EnvUrl == "http://localhost:8000"

\* os.getenv("LLAMA_API_KEY"), variable unset
EnvKey == ""

\* instance 0 is None; an unset attribute is ""
Unconstructed ==
    [instance |-> 0, initialized |-> FALSE, base_url |-> "", api_key |-> "",
     allocated |-> 0, sessions |-> 0, constructions |-> 0, last |-> 0,
     arg_url |-> "", arg_key |-> "", closes |-> 0]

\* faulty variant: every construction allocates a new object
NewAlwaysAllocates(svc) ==
    [svc EXCEPT !.instance = svc.allocated + 1,
                !.allocated = @ + 1,
                !.initialized = FALSE]

\* __new__: allocate only when cls._instance is None
New(svc) ==
    IF svc.instance = 0
    THEN [svc EXCEPT !.instance = svc.allocated + 1,
                     !.allocated = @ + 1,
                     !.initialized = FALSE]
    ELSE svc

\* __init__ after the guard: config, the flag, then the session
Configure(svc, sess, base_url, api_key, session_ok) ==
    LET set == [svc EXCEPT
                  !.base_url = IF base_url = "" THEN EnvUrl ELSE base_url,
                  !.api_key = IF api_key = "" THEN EnvKey ELSE api_key,
                  !.initialized = TRUE]
    IN  IF session_ok
        THEN [svc |-> [set EXCEPT !.sessions = @ + 1], session |-> "open",
              raised |-> FALSE]
        ELSE [svc |-> set, session |-> sess, raised |-> TRUE]

\* faulty variant: __init__ without the _initialized guard
InitializeAgain(svc, sess, base_url, api_key, session_ok) ==
    Configure(svc, sess, base_url, api_key, session_ok)

\* __init__: return at once on an initialised instance
Initialize(svc, sess, base_url, api_key, session_ok) ==
    IF svc.initialized
    THEN [svc |-> svc, session |-> sess, raised |-> FALSE]
    ELSE Configure(svc, sess, base_url, api_key, session_ok)

\* faulty variant: close() on a closed session opens it again
CloseToggles(s) ==
    IF s = "open" THEN "closed" ELSE IF s = "closed" THEN "open" ELSE s

\* close(): `if self._session and not self._session.closed`
Closed(s) == IF s = "open" THEN "closed" ELSE s

-----------------------------------------------------------------------------
(* Per-call state: the locals of one generate_response_async coroutine     *)

LogEntry(out, at, sleep, wait) ==
    [out |-> out, at |-> at, sleep |-> sleep, wait |-> wait]

IdleCall ==
    [pc |-> "idle", prompt |-> << >>, hist |-> << >>, kwargs |-> << >>,
     sess |-> FALSE, key |-> CacheKey(<< >>, << >>, << >>),
     attempt |-> 0, last_exception |-> NoError,
     use_session |-> "none", close_session |-> FALSE, priv |-> "none",
     supplied |-> "none", closes_shared |-> FALSE,
     messages |-> << >>,
     options |-> [temperature |-> 0, num_predict |-> 0, top_p |-> 0],
     result |-> "", error |-> NoError,
     log |-> << >>, clock |-> 0, wait |-> 0,
     prior_known |-> FALSE, prior_text |-> "",
     cache0 |-> << >>, has_cache0 |-> FALSE, cancel_sent |-> FALSE]

Finished(r) == r.pc \in {"idle", "returned", "raised", "cancelled"}

\* the session the call is about to post on has been closed
UsedSessionClosed(r) == r.use_session = "shared" /\ session = "closed"

\* lines 222-231: close use_session when close_session says so, raise the
\* last error
AfterLoop(r) ==
    [r EXCEPT !.pc = "raised",
              !.priv = IF r.close_session /\ r.use_session = "private"
                          /\ r.priv = "open"
                       THEN "closed" ELSE @,
              !.supplied = IF r.close_session /\ r.use_session = "supplied"
                              /\ r.supplied = "open"
                           THEN "closed" ELSE @,
              !.closes_shared = r.close_session /\ r.use_session = "shared",
              !.error = IF r.last_exception.type = "None"
                        THEN GenericFailure500 ELSE r.last_exception]

RECURSIVE HandleFailure(_, _)
RECURSIVE NextIteration(_)
RECURSIVE Post(_)

\* lines 166-170: enter `async with use_session.post(...)`
Post(r) ==
    IF UsedSessionClosed(r)
    THEN HandleFailure(r, ClosedOutcome)
    ELSE [r EXCEPT !.pc = "awaiting"]

\* faulty variant: the loop counter is an attribute of the shared instance,
\* so a call goes on from the furthest counter of the calls in flight
SharedLoopCounter(r) ==
    LET others == {calls[c].attempt : c \in {d \in Calls : ~Finished(calls[d])}}
        top == CHOOSE a \in others \cup {r.attempt} :
                  \A b \in others \cup {r.attempt} : b <= a
    IN  IF RangeHasNext(top)
        THEN Post([r EXCEPT !.attempt = top + 1])
        ELSE AfterLoop(r)

\* lines 163, 178: advance the for loop
NextIteration(r) ==
    IF RangeHasNext(r.attempt)
    THEN Post([r EXCEPT !.attempt = @ + 1])
    ELSE AfterLoop(r)

\* lines 196-220: an except clause, then the backoff decision
HandleFailure(r, out) ==
    LET r1 == [r EXCEPT !.last_exception = ExceptionFor(out)] IN
    IF ShouldBackoff(r.attempt)
    THEN [r1 EXCEPT !.pc = "sleeping",
                    !.wait = BackoffWait(r.attempt),
                    !.log = Append(@, LogEntry(out, r.clock, "backoff",
                                               BackoffWait(r.attempt)))]
    ELSE NextIteration(
            [r1 EXCEPT !.log = Append(@, LogEntry(out, r.clock, "none", 0))])

\* lines 175-178: HTTP 429, sleep for Retry-After and continue
RateLimited(r, out) ==
    IF IntParses(RetryAfterHeader(out))
    THEN [r EXCEPT !.pc = "sleeping",
                   !.wait = IntValue(RetryAfterHeader(out)),
                   !.log = Append(@, LogEntry(out, r.clock, "retry_after",
                                              IntValue(RetryAfterHeader(out))))]
    ELSE HandleFailure(r, out)

\* lines 185-194: read the body, cache it, return it
Succeed(r, out) ==
    [r EXCEPT !.pc = "returned",
              !.result = ExtractText(out),
              !.log = Append(@, LogEntry(out, r.clock, "none", 0))]

\* lines 170-220: what the coroutine does with the outcome of one attempt
AfterResponse(r, out) ==
    IF IsSuccess(out) THEN Succeed(r, out)
    ELSE IF out.kind = "http" /\ out.status = HTTP_TOO_MANY_REQUESTS
         THEN RateLimited(r, out)
         ELSE HandleFailure(r, out)

\* faulty variant: the cancellation is caught by `except Exception`
CancelledIsCaught(r) == HandleFailure(r, ExceptionOutcome)

\* lines 163-220: CancelledError raised at an await passes every except
\* clause, none of which catches a BaseException, and leaves the coroutine
Cancelled(r) == [r EXCEPT !.pc = "cancelled", !.error = CancelledError]

\* faulty variant: the shared session is used without looking at `closed`
SharedEvenIfClosed(r) ==
    IF r.sess
    THEN [r EXCEPT !.use_session = "supplied", !.close_session = FALSE,
                   !.supplied = "open"]
    ELSE IF session # "none"
         THEN [r EXCEPT !.use_session = "shared", !.close_session = FALSE]
         ELSE [r EXCEPT !.use_session = "private", !.close_session = TRUE,
                        !.priv = "open"]

\* faulty variant: every call closes the session it ran on
AlwaysClosesSession(r) ==
    IF r.sess
    THEN [r EXCEPT !.use_session = "supplied", !.close_session = TRUE,
                   !.supplied = "open"]
    ELSE IF session = "open"
         THEN [r EXCEPT !.use_session = "shared", !.close_session = TRUE]
         ELSE [r EXCEPT !.use_session = "private", !.close_session = TRUE,
                        !.priv = "open"]

\* lines 140-161: pick the session the attempts run on
WithSession(r) ==
    IF r.sess
    THEN [r EXCEPT !.use_session = "supplied", !.close_session = FALSE,
                   !.supplied = "open"]
    ELSE IF session = "open"
         THEN [r EXCEPT !.use_session = "shared", !.close_session = FALSE]
         ELSE [r EXCEPT !.use_session = "private", !.close_session = TRUE,
                        !.priv = "open"]

\* lines 108-163: from the call to the first suspension point
Started(req, sess) ==
    LET key == CacheKey(req.prompt, req.hist, req.kwargs)
        r0 == [IdleCall EXCEPT
                 !.prompt = req.prompt, !.hist = req.hist,
                 !.kwargs = req.kwargs, !.sess = sess, !.key = key,
                 !.prior_known = key \in DOMAIN returned_text,
                 !.prior_text = IF key \in DOMAIN returned_text
                                THEN returned_text[key] ELSE "",
                 !.cache0 = cache, !.has_cache0 = has_cache]
    IN  IF InvalidPrompt(req.prompt)
        THEN [r0 EXCEPT !.pc = "raised", !.error = ValueErrorEmptyPrompt]
        ELSE IF CacheHit(has_cache, cache, key)
             THEN [r0 EXCEPT !.pc = "returned", !.result = cache[key]]
             ELSE Post(WithSession(
                     [r0 EXCEPT !.messages = BuildMessages(req.prompt, req.hist),
                                !.options = PayloadOptions(req.kwargs)]))

\* the shared session after a step of a call: closed when the call's
\* line 223 ran on it
SessionAfter(s, r) == IF r.closes_shared THEN Closed(s) ELSE s

-----------------------------------------------------------------------------
(* Actions                                                                 *)

\* the process before any LlamaService(...) call
InitProcess ==
    /\ calls = [c \in Calls |-> IdleCall]
    /\ cache = << >>
    /\ has_cache = FALSE
    /\ session = "none"
    /\ returned_text = << >>
    /\ service = Unconstructed

\* the state after one LlamaService() with default arguments
Init ==
    /\ calls = [c \in Calls |-> IdleCall]
    /\ cache = << >>
    /\ has_cache = FALSE
    /\ session = "open"
    /\ returned_text = << >>
    /\ service = [Initialize(New(Unconstructed), "none", "", "", TRUE).svc
                    EXCEPT !.constructions = 1, !.last = 1]

\* a caller invokes generate_response_async with one of the inputs reqs,
\* passing a session of its own or not
Invoke(c, reqs, sessions) ==
    /\ Finished(calls[c])
    /\ \E req \in reqs, sess \in sessions :
          calls' = [calls EXCEPT ![c] = Started(req, sess)]
    /\ UNCHANGED <<cache, has_cache, session, returned_text, service>>

Begin(c) == Invoke(c, Requests, BOOLEAN)

\* the backend (or the transport) settles the attempt in flight with one of
\* the outcomes outs
Settle(c, outs) ==
    /\ calls[c].pc = "awaiting"
    /\ \E out \in outs :
          LET r == AfterResponse(calls[c], out) IN
          /\ calls' = [calls EXCEPT ![c] = r]
          /\ IF IsSuccess(out)
             THEN /\ cache' = CacheStore(cache, calls[c].key, ExtractText(out))
                  /\ has_cache' = TRUE
                  /\ returned_text' =
                        [k \in DOMAIN returned_text \cup {calls[c].key} |->
                            IF k = calls[c].key THEN r.result
                            ELSE returned_text[k]]
             ELSE UNCHANGED <<cache, has_cache, returned_text>>
          /\ session' = SessionAfter(session, r)
    /\ UNCHANGED service

Respond(c) == Settle(c, Responses)

\* asyncio.sleep returns; the loop goes on
Wake(c) ==
    /\ calls[c].pc = "sleeping"
    /\ calls' = [calls EXCEPT ![c] =
                    NextIteration([calls[c] EXCEPT !.clock = @ + calls[c].wait])]
    /\ session' = SessionAfter(session, calls'[c])
    /\ UNCHANGED <<cache, has_cache, returned_text, service>>

\* LlamaService.close, also reached through __aexit__
Close ==
    /\ service.closes < MaxCloses
    /\ session' = Closed(session)
    /\ service' = [service EXCEPT !.closes = @ + 1]
    /\ UNCHANGED <<calls, cache, has_cache, returned_text>>

\* LlamaService(base_url, api_key): __new__, then __init__; session_ok tells
\* whether building the ClientSession succeeds
Construct(base_url, api_key, session_ok) ==
    /\ service.constructions < MaxConstructions
    /\ LET made == New(service)
           done == Initialize(made, session, base_url, api_key, session_ok)
       IN  /\ service' = [done.svc EXCEPT
                             !.constructions = @ + 1,
                             !.last = IF done.raised THEN 0 ELSE made.instance,
                             !.arg_url = base_url,
                             !.arg_key = api_key]
           /\ session' = done.session
    /\ UNCHANGED <<calls, cache, has_cache, returned_text>>

CallStep(c) == Begin(c) \/ Respond(c) \/ Wake(c)

Next == (\E c \in SeqCalls : CallStep(c)) \/ Close

Spec == Init /\ [][Next]_vars

-----------------------------------------------------------------------------
(* A caller working through pairwise distinct inputs                       *)

\* a capacity the cache is measured against, scaled down
CacheCapacity == 3

\* one more distinct valid input than the capacity
GrowthRequests ==
    {Request(Decimal(n), << >>, << >>) : n \in 1..(CacheCapacity + 1)}

GrowthResponses ==
    {Outcome("http", HTTP_OK, FALSE, << >>, TRUE, "t1"), TimeoutOutcome}

NextGrowth ==
    \E c \in SeqCalls :
        \/ Invoke(c, GrowthRequests, {FALSE})
        \/ Settle(c, GrowthResponses)
        \/ Wake(c)

SpecGrowth == Init /\ [][NextGrowth]_vars

-----------------------------------------------------------------------------
(* The process from its start: constructions, calls and close()            *)

ServiceRequests == {Request(<<"a">>, << >>, << >>)}

\* some construction has handed the instance to the caller
Held == service.last # 0

NextService ==
    \/ \E b \in BaseUrls, k \in ApiKeys, ok \in BOOLEAN : Construct(b, k, ok)
    \/ Held /\ Close
    \/ Held /\ \E c \in SeqCalls : Invoke(c, ServiceRequests, {FALSE})
    \/ \E c \in SeqCalls : Settle(c, GrowthResponses)
    \/ \E c \in SeqCalls : Wake(c)

SpecService == InitProcess /\ [][NextService]_vars

-----------------------------------------------------------------------------
(* A caller trying generation options in and out of range                  *)

\* temperature and top_p in tenths: negative, zero, in range, the limit, over
OptionTenths == {-5, 0, 7, 10, 15}

\* max_tokens in tenths: -1, 0, 0.5, 1000, 5000
MaxTokensTenths == {-10, 0, 5, 10000, 50000}

OptionRequests ==
    {Request(<<"a">>, << >>,
             <<<<"temperature", t>>, <<"max_tokens", m>>, <<"top_p", p>>>>) :
        t \in OptionTenths, m \in MaxTokensTenths, p \in OptionTenths}

OptionResponses == {TimeoutOutcome}

NextOptions ==
    \E c \in SeqCalls :
        \/ Invoke(c, OptionRequests, {FALSE})
        \/ Settle(c, OptionResponses)
        \/ Wake(c)

SpecOptions == Init /\ [][NextOptions]_vars

-----------------------------------------------------------------------------
(* Two tasks, one call each, running concurrently on the singleton         *)

ConcRequests == {Request(<<"a">>, << >>, << >>)}

ConcResponses ==
    {TimeoutOutcome,
     Outcome("http", HTTP_TOO_MANY_REQUESTS, FALSE, << >>, FALSE, "err")}
    \cup {Outcome("http", HTTP_OK, FALSE, << >>, TRUE, t) : t \in Texts}

\* a task makes its one call
InvokeOnce(c) ==
    /\ calls[c].pc = "idle"
    /\ Invoke(c, ConcRequests, {FALSE})

NextConc ==
    \E c \in Calls :
        \/ InvokeOnce(c)
        \/ Settle(c, ConcResponses)
        \/ Wake(c)

SpecConc == Init /\ [][NextConc]_vars

-----------------------------------------------------------------------------
(* A caller that may cancel its call                                       *)

CancelResponses ==
    {TimeoutOutcome,
     Outcome("http", HTTP_OK, FALSE, << >>, TRUE, "t1"),
     Outcome("http", HTTP_TOO_MANY_REQUESTS, FALSE, << >>, FALSE, "err"),
     Outcome("http", HTTP_TOO_MANY_REQUESTS, TRUE, Decimal(MaxRetryAfter),
             FALSE, "err")}

\* task.cancel() reaches the coroutine at the await it is suspended on
Cancel(c) ==
    /\ calls[c].pc \in {"awaiting", "sleeping"}
    /\ calls' = [calls EXCEPT ![c] =
                    [Cancelled(calls[c]) EXCEPT !.cancel_sent = TRUE]]
    /\ UNCHANGED <<cache, has_cache, session, returned_text, service>>

NextCancel ==
    \E c \in SeqCalls :
        \/ Begin(c)
        \/ Settle(c, CancelResponses)
        \/ Wake(c)
        \/ Cancel(c)

SpecCancel == Init /\ [][NextCancel]_vars

-----------------------------------------------------------------------------
(* Two callers passing equal values held in different objects              *)

\* a second dict with the same role and content, and a field of its own
UserMessageCopy == [role |-> "user", content |-> "q", name |-> "n"]

KeyHistories ==
    {<<UserMessage, AssistantMessage>>, <<UserMessageCopy, AssistantMessage>>}

\* the same two options, given in either order
KeyOptions ==
    {<<<<"temperature", 7>>, <<"top_p", 1>>>>,
     <<<<"top_p", 1>>, <<"temperature", 7>>>>}

KeyRequests ==
    {Request(<<"a">>, h, k) : h \in KeyHistories, k \in KeyOptions}
    \cup {Request(<<"a">>, <<AssistantMessage, UserMessage>>, << >>)}

KeyResponses == {Outcome("http", HTTP_OK, FALSE, << >>, TRUE, "t1")}

NextKey ==
    \E c \in Calls :
        \/ Invoke(c, KeyRequests, {FALSE})
        \/ Settle(c, KeyResponses)

SpecKey == Init /\ [][NextKey]_vars

-----------------------------------------------------------------------------
(* generate_response next to generate_response_async: the same inputs, the *)
(* same cache and the same backend outcomes, step by step                  *)

AsyncCall == 1
SyncCall == 2

\* faulty variant: the wrapper does not forward the options
SyncDropsOptions(req, sess) ==
    Started(Request(req.prompt, req.hist, << >>), sess)

\* lines 255-272: run generate_response_async(prompt, conversation_history,
\* **kwargs) to completion on a new event loop
SyncStarted(req, sess) ==
    Started(Request(req.prompt, req.hist, req.kwargs), sess)

\* the write of line 190 by call c, when out is what it was waiting for
StoredBy(ch, c, out) ==
    IF calls[c].pc = "awaiting" /\ IsSuccess(out)
    THEN CacheStore(ch, calls[c].key, ExtractText(out))
    ELSE ch

BeginBoth ==
    /\ \A c \in Calls : Finished(calls[c])
    /\ \E req \in Requests, sess \in BOOLEAN :
          calls' = [c \in Calls |->
                      IF c = SyncCall THEN SyncStarted(req, sess)
                      ELSE Started(req, sess)]
    /\ UNCHANGED <<cache, has_cache, session, returned_text, service>>

RespondBoth ==
    /\ \E c \in Calls : calls[c].pc = "awaiting"
    /\ \E out \in Responses :
          /\ calls' = [c \in Calls |->
                         IF calls[c].pc = "awaiting"
                         THEN AfterResponse(calls[c], out) ELSE calls[c]]
          /\ cache' = StoredBy(StoredBy(cache, AsyncCall, out), SyncCall, out)
          /\ has_cache' = (has_cache \/ IsSuccess(out))
          /\ returned_text' =
                StoredBy(StoredBy(returned_text, AsyncCall, out), SyncCall, out)
          /\ session' = SessionAfter(SessionAfter(session, calls'[AsyncCall]),
                                     calls'[SyncCall])
    /\ UNCHANGED service

WakeBoth ==
    /\ \E c \in Calls : calls[c].pc = "sleeping"
    /\ calls' = [c \in Calls |->
                    IF calls[c].pc = "sleeping"
                    THEN NextIteration([calls[c] EXCEPT !.clock = @ + calls[c].wait])
                    ELSE calls[c]]
    /\ session' = SessionAfter(SessionAfter(session, calls'[AsyncCall]),
                               calls'[SyncCall])
    /\ UNCHANGED <<cache, has_cache, returned_text, service>>

NextSync == BeginBoth \/ RespondBoth \/ WakeBoth \/ Close

SpecSync == Init /\ [][NextSync]_vars

-----------------------------------------------------------------------------
(* Vocabulary of the properties                                            *)

Last(seq) == seq[Len(seq)]

\* POSTs that went out: logged iterations that reached the backend, plus the
\* one in flight
PhysicalAttempts(r) ==
    Cardinality({i \in 1..Len(r.log) : r.log[i].out.kind # "session_closed"})
    + (IF r.pc = "awaiting" THEN 1 ELSE 0)

AllTimeouts(r) ==
    /\ Len(r.log) > 0
    /\ \A i \in 1..Len(r.log) : r.log[i].out.kind = "timeout"

IsHttp(out, status) == out.kind = "http" /\ out.status = status

IsClientError(out) ==
    /\ out.kind = "http"
    /\ out.status >= 400 /\ out.status < 500
    /\ out.status # 429

IsServerError(out) == out.kind = "http" /\ out.status >= 500

\* a 429 whose Retry-After is absent or a number of seconds
NumericRateLimit(out) ==
    /\ IsHttp(out, 429)
    /\ out.has_hdr => (Len(out.hdr) > 0 /\ \A j \in 1..Len(out.hdr) : out.hdr[j] \in Digits)

BlankPrompt(prompt) == \A i \in 1..Len(prompt) : prompt[i] = " "

\* the step in which call c is invoked
BeginStep(c) ==
    /\ calls[c].pc \in {"idle", "returned", "raised", "cancelled"}
    /\ calls'[c] # calls[c]

\* the time the attempt after log entry i was started, when there is one
NextAttemptAt(r, i) == IF i < Len(r.log) THEN r.log[i + 1].at ELSE r.clock

AttemptFollows(r, i) ==
    i < Len(r.log) \/ (i = Len(r.log) /\ r.pc = "awaiting")

-----------------------------------------------------------------------------
(* C1: retry ceiling                                                       *)

\* C1 as stated: when every physical attempt of a call times out, the call
\* makes exactly MAX_RETRIES + 1 attempts and then fails with the timeout error.
C1_Original ==
    \A c \in Calls :
        (calls[c].pc = "raised" /\ AllTimeouts(calls[c])) =>
            /\ PhysicalAttempts(calls[c]) = MAX_RETRIES + 1
            /\ calls[c].error.status = 504

\* C1 as the code has it: when every physical attempt of a call times out,
\* the call makes exactly MAX_RETRIES attempts (never more, and it does not
\* stop earlier) and then fails with the 504 timeout error.
C1_RetryCeiling ==
    \A c \in Calls :
        AllTimeouts(calls[c]) =>
            /\ PhysicalAttempts(calls[c]) <= MAX_RETRIES
            /\ calls[c].pc = "raised" <=> Len(calls[c].log) = MAX_RETRIES
            /\ calls[c].pc = "raised" =>
                  /\ PhysicalAttempts(calls[c]) = MAX_RETRIES
                  /\ calls[c].error.type = "HTTPException"
                  /\ calls[c].error.status = 504
                  /\ calls[c].error.detail = "Request to Llama API timed out"

C1_Witness ==
    \E c \in Calls :
        /\ calls[c].pc = "raised"
        /\ AllTimeouts(calls[c])
        /\ PhysicalAttempts(calls[c]) = MAX_RETRIES

-----------------------------------------------------------------------------
(* C2: no retry on client error                                            *)

\* C2 as stated: after an HTTP 4xx answer other than 429 the call makes no
\* further attempt and no backoff sleep, and fails at once with an error that
\* carries the backend's status and error text.
C2_Original ==
    \A c \in Calls :
        \A i \in 1..Len(calls[c].log) :
            IsClientError(calls[c].log[i].out) =>
                /\ i = Len(calls[c].log)
                /\ calls[c].pc = "raised"
                /\ calls[c].log[i].sleep = "none"
                /\ calls[c].error.status = calls[c].log[i].out.status
                /\ calls[c].error.cause_text = calls[c].log[i].out.text

-----------------------------------------------------------------------------
(* C3: cache short-circuit                                                 *)

\* C3: a call invoked while the cache holds an entry for its key returns
\* exactly that entry, makes no physical attempt and no sleep, and leaves the
\* cache as it was.
C3_CacheShortCircuit ==
    [][\A c \in Calls :
          (BeginStep(c) /\ has_cache /\ calls'[c].key \in DOMAIN cache) =>
              /\ calls'[c].pc = "returned"
              /\ calls'[c].result = cache[calls'[c].key]
              /\ PhysicalAttempts(calls'[c]) = 0
              /\ Len(calls'[c].log) = 0
              /\ cache' = cache
              /\ has_cache' = has_cache]_vars

C3_Witness ==
    \E c \in Calls :
        /\ calls[c].pc = "returned"
        /\ Len(calls[c].log) = 0
        /\ calls[c].has_cache0
        /\ calls[c].key \in DOMAIN calls[c].cache0
        /\ calls[c].result = calls[c].cache0[calls[c].key]

-----------------------------------------------------------------------------
(* C4: input validation                                                    *)

\* C4: a call with an empty or whitespace-only prompt raises the invalid-input
\* error at once, with no physical attempt, and leaves the cache and the
\* shared session unchanged, whatever they hold.
C4_InvalidInput ==
    [][\A c \in Calls :
          (BeginStep(c) /\ BlankPrompt(calls'[c].prompt)) =>
              /\ calls'[c].pc = "raised"
              /\ calls'[c].error.type = "ValueError"
              /\ PhysicalAttempts(calls'[c]) = 0
              /\ Len(calls'[c].log) = 0
              /\ calls'[c].priv = "none"
              /\ cache' = cache
              /\ has_cache' = has_cache
              /\ session' = session]_vars

C4_Witness ==
    \E c \in Calls :
        /\ calls[c].pc = "raised"
        /\ calls[c].error.type = "ValueError"
        /\ Len(calls[c].prompt) > 0
        /\ BlankPrompt(calls[c].prompt)
        /\ calls[c].has_cache0
        /\ session = "closed"

-----------------------------------------------------------------------------
(* C5: the error after exhaustion names the last failure                   *)

RetryableFailure(out) ==
    \/ out.kind \in {"timeout", "connerr"}
    \/ NumericRateLimit(out)
    \/ IsServerError(out)

\* the failure kind of an attempt's outcome
OutcomeKind(out) ==
    CASE out.kind = "timeout" -> "Timeout"
      [] out.kind = "connerr" -> "ConnectionError"
      [] IsHttp(out, 429) -> "RateLimited"
      [] IsServerError(out) -> "BackendError"
      [] IsClientError(out) -> "RequestRejected"
      [] OTHER -> "Unexpected"

\* the failure kind a caller can read off the raised error; the wrapped cause
\* of an "Unexpected error" is read generously, as if str(e) named its status
ErrorKind(e) ==
    CASE e.type = "ValueError" -> "InvalidInput"
      [] e.status = 504 -> "Timeout"
      [] e.status = 503 -> "ConnectionError"
      [] e.detail = "Unexpected error" /\ e.cause_status = 429 -> "RateLimited"
      [] e.detail = "Unexpected error" /\ e.cause_status >= 500 -> "BackendError"
      [] e.detail = "Unexpected error" /\ e.cause_status >= 400 -> "RequestRejected"
      [] e.detail = "Unexpected error" -> "Unexpected"
      [] OTHER -> "Generic"

\* C5 as stated: when a call exhausts its attempts on timeouts, connection
\* errors, 429s and 5xx answers, the error it raises has the failure kind of
\* the last attempt, and is never the generic failure.
C5_Original ==
    \A c \in Calls :
        (/\ calls[c].pc = "raised"
         /\ Len(calls[c].log) = MAX_RETRIES
         /\ \A i \in 1..MAX_RETRIES : RetryableFailure(calls[c].log[i].out)) =>
            /\ ErrorKind(calls[c].error) = OutcomeKind(Last(calls[c].log).out)
            /\ ErrorKind(calls[c].error) # "Generic"

-----------------------------------------------------------------------------
(* C6: Retry-After is honoured                                             *)

-----------------------------------------------------------------------------
(* C7: exponential backoff                                                 *)

TransportFailure(out) == out.kind \in {"timeout", "connerr"}

\* C7: when attempt a (from 0) of a call ends in a timeout or a connection
\* error and another attempt follows, the sleep between them is exactly
\* RETRY_DELAY * 2^a; so these delays never decrease within a call.
C7_BackoffGrowth ==
    \A c \in Calls :
        LET r == calls[c] IN
        /\ \A i \in 1..Len(r.log) :
              (TransportFailure(r.log[i].out)
                 /\ (AttemptFollows(r, i) \/ r.pc = "sleeping")) =>
                  /\ r.log[i].sleep = "backoff"
                  /\ r.log[i].wait = RETRY_DELAY * 2 ^ (i - 1)
                  /\ AttemptFollows(r, i) =>
                        NextAttemptAt(r, i) - r.log[i].at = r.log[i].wait
        /\ \A i, j \in 1..Len(r.log) :
              (/\ i < j
               /\ TransportFailure(r.log[i].out)
               /\ TransportFailure(r.log[j].out)
               /\ r.log[j].sleep # "none") => r.log[i].wait <= r.log[j].wait

C7_Witness ==
    \E c \in Calls :
        /\ Len(calls[c].log) = MAX_RETRIES
        /\ calls[c].log[1].out.kind = "timeout"
        /\ calls[c].log[2].out.kind = "connerr"
        /\ calls[c].log[1].wait = 1
        /\ calls[c].log[2].wait = 2
        /\ calls[c].log[3].at = 3

-----------------------------------------------------------------------------
(* C8: transient recovery                                                  *)

\* C8: a call whose first attempt times out and whose second attempt returns
\* HTTP 200 with a content returns that content after exactly 2 physical
\* attempts; in general a call returns at its first HTTP 200 and makes no
\* attempt after it.
C8_TransientRecovery ==
    \A c \in Calls :
        LET r == calls[c] IN
        /\ (/\ Len(r.log) >= 2
            /\ r.log[1].out.kind = "timeout"
            /\ IsHttp(r.log[2].out, 200)
            /\ r.log[2].out.has_content) =>
                /\ r.pc = "returned"
                /\ r.result = r.log[2].out.text
                /\ Len(r.log) = 2
                /\ PhysicalAttempts(r) = 2
        /\ \A i \in 1..Len(r.log) :
              IsHttp(r.log[i].out, 200) =>
                  /\ i = Len(r.log)
                  /\ r.pc = "returned"
                  /\ r.log[i].sleep = "none"
                  /\ \A j \in 1..(i - 1) : ~IsHttp(r.log[j].out, 200)

C8_Witness ==
    \E c \in Calls :
        /\ calls[c].pc = "returned"
        /\ Len(calls[c].log) = 2
        /\ calls[c].log[1].out.kind = "timeout"
        /\ IsHttp(calls[c].log[2].out, 200)
        /\ calls[c].result = "t1"

-----------------------------------------------------------------------------
(* C9: a success is cached and served to the next equal call               *)

\* C9: when a call returns the text of a successful attempt the cache maps
\* the call's key to that text, and a call invoked after some call returned
\* text t for the same inputs returns t with no physical attempt.
C9_CacheAfterSuccess ==
    \A c \in Calls :
        LET r == calls[c] IN
        /\ (r.pc = "returned" /\ Len(r.log) > 0) =>
              /\ has_cache
              /\ r.key \in DOMAIN cache
              /\ cache[r.key] = r.result
        /\ r.prior_known =>
              /\ r.pc = "returned"
              /\ r.result = r.prior_text
              /\ PhysicalAttempts(r) = 0
              /\ Len(r.log) = 0

C9_Witness ==
    \E c \in Calls :
        /\ calls[c].prior_known
        /\ calls[c].pc = "returned"
        /\ calls[c].result = "t2"
        /\ Len(calls[c].log) = 0
        /\ calls[c].hist # << >>

-----------------------------------------------------------------------------
(* C10: failures never reach the cache                                     *)

\* C10: the cache changes only in the step in which an attempt answered with
\* HTTP 200 returns, and then only by mapping that call's key to the text of
\* that answer; so a failing attempt or a failing call leaves the cache as it
\* was and no error text is ever stored.
C10_NoCachePoisoning ==
    [][(cache' # cache \/ has_cache' # has_cache) =>
          \E c \in Calls :
              /\ calls[c].pc = "awaiting"
              /\ calls'[c].pc = "returned"
              /\ IsHttp(Last(calls'[c].log).out, 200)
              /\ has_cache'
              /\ DOMAIN cache' = DOMAIN cache \cup {calls[c].key}
              /\ cache'[calls[c].key] =
                    IF Last(calls'[c].log).out.has_content
                    THEN Last(calls'[c].log).out.text ELSE ""
              /\ \A k \in DOMAIN cache \ {calls[c].key} : cache'[k] = cache[k]]_vars

C10_Witness ==
    \E c \in Calls :
        /\ calls[c].pc = "raised"
        /\ Len(calls[c].log) = MAX_RETRIES
        /\ IsClientError(calls[c].log[1].out)
        /\ has_cache
        /\ DOMAIN cache # {}
        /\ cache = calls[c].cache0

-----------------------------------------------------------------------------
(* C11: the retry budget bounds every call                                 *)

\* loop iterations of the call so far, the one in flight included
Iterations(r) == Len(r.log) + (IF r.pc = "awaiting" THEN 1 ELSE 0)

\* C11: whatever the outcomes of its attempts (timeout, connection error,
\* 429, 5xx, 4xx, unexpected exception), a call never makes more than
\* MAX_RETRIES retries, that is never more than MAX_RETRIES + 1 physical
\* attempts.
C11_RetryBudget ==
    \A c \in Calls :
        /\ PhysicalAttempts(calls[c]) <= MAX_RETRIES + 1
        /\ Iterations(calls[c]) - 1 <= MAX_RETRIES

C11_Witness ==
    \E c \in Calls :
        /\ calls[c].pc = "raised"
        /\ PhysicalAttempts(calls[c]) = MAX_RETRIES
        /\ IsClientError(calls[c].log[1].out)
        /\ calls[c].log[2].out.kind = "exception"
        /\ IsHttp(calls[c].log[3].out, 429)

-----------------------------------------------------------------------------
(* C12: the size of the request cache                                      *)

\* C12: the request cache is bounded: however many pairwise distinct inputs
\* are served successfully, it never holds more than CacheCapacity entries.
C12_Original == Cardinality(DOMAIN cache) <= CacheCapacity

-----------------------------------------------------------------------------
(* C13: the cache key depends on the values only                           *)

\* the two histories give the same (role, content) pairs, position by position
SameRoleContent(h1, h2) ==
    /\ Len(h1) = Len(h2)
    /\ \A i \in 1..Len(h1) :
          /\ MsgGet(h1[i], "role") = MsgGet(h2[i], "role")
          /\ MsgGet(h1[i], "content") = MsgGet(h2[i], "content")

\* the two option lists hold the same name/value pairs, in whatever order
SameOptions(k1, k2) ==
    /\ \A i \in 1..Len(k1) : \E j \in 1..Len(k2) : k1[i] = k2[j]
    /\ \A j \in 1..Len(k2) : \E i \in 1..Len(k1) : k2[j] = k1[i]

\* C13: two calls with equal prompts, histories that are equal as sequences of
\* (role, content) pairs though held in different objects, and the same option
\* name/value pairs in any order compute the same cache key; and computing the
\* key again from a call's inputs gives the key the call computed.
C13_KeyOfValues ==
    \A c, d \in Calls :
        (calls[c].pc # "idle" /\ calls[d].pc # "idle") =>
            /\ (/\ calls[c].prompt = calls[d].prompt
                /\ SameRoleContent(calls[c].hist, calls[d].hist)
                /\ SameOptions(calls[c].kwargs, calls[d].kwargs))
               => calls[c].key = calls[d].key
            /\ calls[c].key =
                  CacheKey(calls[c].prompt, calls[c].hist, calls[c].kwargs)

C13_Witness ==
    \E c, d \in Calls :
        /\ calls[c].pc # "idle" /\ calls[d].pc # "idle"
        /\ calls[c].prompt = calls[d].prompt
        /\ calls[c].hist # calls[d].hist
        /\ SameRoleContent(calls[c].hist, calls[d].hist)
        /\ calls[c].kwargs # calls[d].kwargs
        /\ SameOptions(calls[c].kwargs, calls[d].kwargs)
        /\ calls[c].key = calls[d].key
        /\ calls[c].pc = "returned" /\ Len(calls[c].log) = 1
        /\ calls[d].pc = "returned" /\ Len(calls[d].log) = 0

-----------------------------------------------------------------------------
(* C14: the message sequence of the request                                *)

\* the call got past the cache and built its payload
BuiltPayload(r) == r.pc \in {"awaiting", "sleeping"} \/ Len(r.log) > 0

\* C14: for a prompt and a history of length n, the messages a call sends in
\* each of its attempts are n + 2 long: the fixed system message, the n
\* history messages in the order supplied, then a user message holding the
\* prompt; they stay the same from attempt to attempt, and the caller's
\* history is left as it was.
C14_MessageSequence ==
    [][\A c \in Calls :
          LET r == calls'[c] IN
          /\ BuiltPayload(r) =>
                /\ Len(r.messages) = Len(r.hist) + 2
                /\ r.messages[1].role = "system"
                /\ r.messages[1].content =
                      "You are a helpful AI assistant specialized in nephrology and kidney health."
                /\ \A i \in 1..Len(r.hist) : r.messages[i + 1] = r.hist[i]
                /\ r.messages[Len(r.hist) + 2].role = "user"
                /\ r.messages[Len(r.hist) + 2].content = r.prompt
          /\ ~BeginStep(c) =>
                /\ r.hist = calls[c].hist
                /\ r.messages = calls[c].messages]_vars

C14_Witness ==
    \E c \in Calls :
        /\ Len(calls[c].hist) = 2
        /\ calls[c].hist[1] # calls[c].hist[2]
        /\ Len(calls[c].messages) = 4
        /\ calls[c].pc = "raised"
        /\ PhysicalAttempts(calls[c]) = MAX_RETRIES

-----------------------------------------------------------------------------
(* C15: the synchronous wrapper                                            *)

\* the cache a call leaves behind, from the cache it started on
CacheAfter(r) ==
    IF r.pc = "returned" /\ Len(r.log) > 0
    THEN CacheStore(r.cache0, r.key, r.result)
    ELSE r.cache0

-----------------------------------------------------------------------------
(* C16, C19, C20: close(), the singleton and its configuration             *)

\* the step is a completed close()
CloseStep == service'.closes = service.closes + 1

\* the step is a completed or failed LlamaService(...) call
ConstructStep == service'.constructions = service.constructions + 1

SameConfig ==
    /\ service'.base_url = service.base_url
    /\ service'.api_key = service.api_key

\* C16: close() is idempotent: the first close() takes the shared session from
\* open to closed; every later close() leaves the session as it is; and no
\* close() touches the cache or the config.
C16_CloseIdempotent ==
    [][CloseStep =>
          /\ (service.closes = 0 /\ session = "open") => session' = "closed"
          /\ session # "open" => session' = session
          /\ service.closes >= 1 => session' = session
          /\ cache' = cache /\ has_cache' = has_cache
          /\ SameConfig]_vars

C16_Witness ==
    /\ service.closes = MaxCloses
    /\ session = "closed"
    /\ service.sessions = 1
    /\ service.base_url = "u1"
    /\ Cardinality(DOMAIN cache) = 1

\* C19: however many times LlamaService(...) is called, every call yields the
\* same instance, one object is allocated, and construction creates at most
\* one shared session.
C19_Singleton ==
    [][/\ service'.allocated <= 1
       /\ service'.sessions <= 1
       /\ ConstructStep =>
             /\ service'.last \in {0, service'.instance}
             /\ service.instance # 0 => service'.instance = service.instance
             /\ (service.last # 0 /\ service'.last # 0) =>
                    service'.last = service.last]_vars

C19_Witness ==
    /\ service.constructions = MaxConstructions
    /\ service.allocated = 1
    /\ service.sessions = 1
    /\ service.last = service.instance
    /\ service.arg_url # service.base_url

\* C20: base_url and api_key are fixed by the first construction, from its
\* arguments or the environment's defaults; no later construction with other
\* arguments, no generate call and no close() changes them.
C20_ConfigFixed ==
    [][/\ service.initialized => SameConfig
       /\ (ConstructStep /\ ~service.initialized) =>
             /\ service'.initialized
             /\ service'.base_url =
                   (IF service'.arg_url = "" THEN "http://localhost:8000"
                    ELSE service'.arg_url)
             /\ service'.api_key = service'.arg_key]_vars

C20_Witness ==
    /\ service.constructions >= 2
    /\ service.base_url = "u1"
    /\ service.arg_url = "u2"
    /\ service.api_key = ""
    /\ service.arg_key = "k1"
    /\ service.closes >= 1
    /\ \E c \in Calls : calls[c].pc = "returned"

-----------------------------------------------------------------------------
(* C17: close() while a call is in flight                                  *)

\* close() ran while the call was in flight on the shared session: one of
\* its attempts found that session closed
ClosedUnderway(r) ==
    /\ r.use_session = "shared"
    /\ \E i \in 1..Len(r.log) : r.log[i].out.kind = "session_closed"

\* C17 as stated: a call on the shared session that close() overtakes between
\* attempts or during one still ends, and when it ends in an error that error
\* is of the connection-error kind, never an unclassified one.
C17_Original ==
    \A c \in Calls :
        (ClosedUnderway(calls[c]) /\ calls[c].pc = "raised") =>
            ErrorKind(calls[c].error) = "ConnectionError"

-----------------------------------------------------------------------------
(* C18: cancellation                                                       *)

\* C18: a cancellation delivered while a call awaits a response or sleeps,
\* for Retry-After or for backoff, ends the call with CancelledError: it is
\* not handled as a failure of the attempt, no attempt follows it, and the
\* call writes nothing to the cache.
C18_Cancellation ==
    [][\A c \in Calls :
          LET r == calls[c]
              r2 == calls'[c]
          IN  r2.cancel_sent =>
                 /\ r2.pc = "cancelled"
                 /\ r2.error = CancelledError
                 /\ r2.attempt = r.attempt
                 /\ r2.log = r.log
                 /\ r2.last_exception = r.last_exception
                 /\ cache' = cache
                 /\ cache' = r2.cache0]_vars

C18_Witness ==
    \E c \in Calls :
        /\ calls[c].cancel_sent
        /\ calls[c].pc = "cancelled"
        /\ Len(calls[c].log) = 2
        /\ calls[c].log[1].sleep = "backoff"
        /\ calls[c].log[2].sleep = "retry_after"
        /\ calls[c].log[2].wait = MaxRetryAfter

-----------------------------------------------------------------------------
(* C21: a 200 answer without message.content                               *)

\* an HTTP 200 whose body holds no message.content text
EmptySuccess(out) == IsHttp(out, 200) /\ ~out.has_content

\* C21 as stated: an HTTP 200 answer without message.content is handled as a
\* retryable backend error: the call does not return on it, and nothing is
\* stored in the cache for it.
C21_Original ==
    \A c \in Calls :
        LET r == calls[c] IN
        \A i \in 1..Len(r.log) :
            EmptySuccess(r.log[i].out) =>
                /\ ~(r.pc = "returned" /\ i = Len(r.log))
                /\ ~(r.key \in DOMAIN cache /\ cache[r.key] = "")

-----------------------------------------------------------------------------
(* C22: the options of the payload                                         *)

\* C22 as stated: whatever temperature, max_tokens and top_p the caller
\* passes, the payload's options satisfy 0 <= temperature <= 1,
\* num_predict > 0 and 0 < top_p <= 1 (temperature and top_p in tenths).
C22_Original ==
    \A c \in Calls :
        BuiltPayload(calls[c]) =>
            /\ 0 <= calls[c].options.temperature
            /\ calls[c].options.temperature <= 10
            /\ calls[c].options.num_predict > 0
            /\ 0 < calls[c].options.top_p
            /\ calls[c].options.top_p <= 10

-----------------------------------------------------------------------------
(* C23: the state machine of a call                                        *)

\* Idle and the terminal states are the finished positions; Attempting is
\* "awaiting"; Retrying is "sleeping"; Success is "returned"; Exhausted is
\* "raised".  A step out of "sleeping" whose log grew made an attempt that
\* failed at once, on a closed session.
AttemptedAtOnce(c) ==
    /\ calls[c].pc = "sleeping"
    /\ Len(calls'[c].log) > Len(calls[c].log)

\* C23 as stated, its transitions: a call moves only from Idle to Attempting,
\* from Attempting to Success, to Retrying or to a failure, and from Retrying
\* to Attempting; a wait is never followed directly by the failure.
C23_Original ==
    [][\A c \in Calls :
          calls'[c] # calls[c] =>
             \/ BeginStep(c)
             \/ /\ calls[c].pc = "awaiting"
                /\ calls'[c].pc \in {"returned", "sleeping", "raised"}
             \/ /\ calls[c].pc = "sleeping"
                /\ calls'[c].pc = "awaiting"
             \/ AttemptedAtOnce(c)]_vars

-----------------------------------------------------------------------------
(* C24: concurrent calls with the same inputs                              *)

\* call c returns in this step on an attempt of its own
ReturnsOwn(c) == calls[c].pc = "awaiting" /\ calls'[c].pc = "returned"

\* C24: when calls with identical inputs run concurrently and miss the cache,
\* a call that succeeds returns the text of its own attempt and leaves that
\* text in the cache entry of the shared key, so the entry always holds the
\* text of the last successful call; a step in which no call succeeds, a
\* failing call's included, leaves the cache as it is.
C24_LastWriter ==
    [][/\ \A c \in Calls :
             ReturnsOwn(c) =>
                /\ calls'[c].result = ExtractText(Last(calls'[c].log).out)
                /\ calls'[c].key \in DOMAIN cache'
                /\ cache'[calls'[c].key] = calls'[c].result
       /\ (\A c \in Calls : ~ReturnsOwn(c)) => cache' = cache]_vars

C24_Witness ==
    /\ \A c \in Calls :
          /\ calls[c].pc = "returned"
          /\ Len(calls[c].log) > 0
          /\ ~calls[c].has_cache0
    /\ calls[1].key = calls[2].key
    /\ calls[1].result = "t1"
    /\ calls[2].result = "t2"
    /\ cache[calls[1].key] = "t1"

-----------------------------------------------------------------------------
(* C25: concurrent calls do not share loop state                           *)

\* what the call's own outcomes alone say its record is: one log entry per
\* attempt, the i-th failure followed by the wait its own index and answer
\* give, and the error raised after MAX_RETRIES attempts of its own
OwnCourse(r) ==
    LET handled == {i \in 1..Len(r.log) : r.log[i].sleep # "retry_after"}
        last == CHOOSE i \in handled : \A k \in handled : k <= i
    IN  /\ r.pc = "awaiting" => r.attempt = Len(r.log)
        /\ r.pc = "sleeping" => r.attempt = Len(r.log) - 1
        /\ r.pc = "raised" => Len(r.log) = MAX_RETRIES
        /\ \A i \in 1..Len(r.log) :
              /\ r.log[i].sleep = "backoff" =>
                    r.log[i].wait = BackoffWait(i - 1)
              /\ r.log[i].sleep = "retry_after" =>
                    r.log[i].wait = IntValue(RetryAfterHeader(r.log[i].out))
        /\ r.pc = "raised" =>
              r.error = (IF handled = {} THEN GenericFailure500
                         ELSE ExceptionFor(r.log[last].out))

\* C25: concurrent calls on the singleton are independent: a step of one call
\* leaves every other call's record as it is, and the attempts a call makes,
\* its delays and the error it raises follow from its own outcomes alone.
C25_Independence ==
    [][/\ \A c, d \in Calls :
             (c # d /\ calls'[d] # calls[d]) => calls'[c] = calls[c]
       /\ \A c \in Calls :
             calls'[c].pc \in {"awaiting", "sleeping", "raised"} =>
                OwnCourse(calls'[c])]_vars

C25_Witness ==
    /\ calls[1].pc = "raised"
    /\ calls[1].error = TimeoutError504
    /\ Len(calls[1].log) = MAX_RETRIES
    /\ calls[2].pc = "sleeping"
    /\ calls[2].attempt = 0
    /\ calls[2].log[1].wait = BackoffWait(0)

-----------------------------------------------------------------------------
(* C26: the session a call creates for itself                              *)

\* C26 as stated: a session the call created for itself is closed by the time
\* the call returns or raises, so no private session is open when no call is
\* in flight.
C26_Original ==
    \A c \in Calls :
        calls[c].pc \in {"returned", "raised"} => calls[c].priv # "open"

-----------------------------------------------------------------------------
(* C27: sessions the call did not create                                   *)

\* C27: a call never closes a session it did not create: the session its
\* caller supplied is open after the call as it was before, whether the call
\* succeeds, hits the cache or exhausts its attempts, and the shared session
\* changes in no step but a close().
C27_ForeignSessions ==
    [][/\ ~CloseStep => session' = session
       /\ \A c \in Calls :
             /\ calls'[c].sess => calls'[c].supplied \in {"none", "open"}
             /\ ~BeginStep(c) => calls'[c].supplied = calls[c].supplied]_vars

C27_Witness ==
    \E c \in Calls :
        /\ calls[c].pc = "raised"
        /\ calls[c].sess
        /\ calls[c].use_session = "supplied"
        /\ calls[c].supplied = "open"
        /\ Len(calls[c].log) = MAX_RETRIES
        /\ session = "open"
        /\ service.closes = 0

-----------------------------------------------------------------------------
(* C28: no wait after the last attempt                                     *)

\* C28 as stated: a call that has used up its attempts raises without having
\* slept after the last of them, whatever that attempt's outcome was.
C28_Original ==
    \A c \in Calls :
        (calls[c].pc = "raised" /\ Len(calls[c].log) > 0) =>
            /\ Last(calls[c].log).sleep = "none"
            /\ Last(calls[c].log).wait = 0

-----------------------------------------------------------------------------
(* C29: after close()                                                      *)

\* C29: once closed, the shared session stays closed, whatever is called
\* afterwards, a further LlamaService(...) included; and a call made then
\* without a session of the caller's, when it misses the cache, runs on a
\* private session opened for it, on which every one of its attempts goes out.
C29_ClosedForGood ==
    [][/\ session = "closed" => session' = "closed"
       /\ \A c \in Calls :
             /\ (BeginStep(c) /\ session = "closed" /\ ~calls'[c].sess
                   /\ BuiltPayload(calls'[c])) =>
                   /\ calls'[c].use_session = "private"
                   /\ calls'[c].priv = "open"
                   /\ PhysicalAttempts(calls'[c]) = 1
             /\ calls'[c].use_session = "private" =>
                   /\ PhysicalAttempts(calls'[c]) = Iterations(calls'[c])
                   /\ calls'[c].pc = "raised" =>
                         PhysicalAttempts(calls'[c]) = MAX_RETRIES]_vars

C29_Witness ==
    /\ session = "closed"
    /\ service.closes >= 1
    /\ service.constructions = MaxConstructions
    /\ \E c \in Calls :
          /\ calls[c].use_session = "private"
          /\ calls[c].pc = "raised"
          /\ PhysicalAttempts(calls[c]) = MAX_RETRIES

-----------------------------------------------------------------------------
(* C30: equal keys, equal payloads                                         *)

\* what the call sends, or would send on a miss: lines 124-138
PayloadOf(r) ==
    [messages |-> BuildMessages(r.prompt, r.hist),
     options |-> PayloadOptions(r.kwargs)]

\* C30 as stated: with the hash taken as injective, two calls that compute the
\* same cache key would send the same payload, every field of every history
\* message included, so a cache hit never returns text generated for another
\* payload.
C30_Original ==
    \A c, d \in Calls :
        (calls[c].pc # "idle" /\ calls[d].pc # "idle"
            /\ calls[c].key = calls[d].key) =>
                PayloadOf(calls[c]) = PayloadOf(calls[d])

====
